---- MODULE Spec2Model ----
(***************************************************************************)
(* Array-based (implicit index) AVL tree of src/Files/avl_array.py, with   *)
(* the pointer-based reference tree of src/Files/avl_reference.py.         *)
(*                                                                         *)
(* The array store is the record [capacity, tree, heights, oob]: tree and  *)
(* heights are functions on 0..capacity-1 (the two numpy arrays), oob is a *)
(* ghost flag that is raised when the code subscripts an array outside     *)
(* 0..capacity-1 (numpy raises IndexError there and the call is           *)
(* abandoned: once oob is raised every later step of the call is a no-op). *)
(* Keys and heights stay far below 2^31, so the int32 element width never  *)
(* wraps within the bounds used here.                                      *)
(***************************************************************************)
EXTENDS Integers, Sequences, FiniteSets, TLC

\* ------------------------------------------------------------------ bounds
\* the keys handed to insert are 10, 20, .., 10*MaxKey and 25 (main.py's data
\* for MaxKey = 5)
MaxKey == 5
\* largest index handed to a direct _resize call
MaxResize == 12
\* largest base index and largest relative index handed to a direct
\* _map_index call
MaxBase == 6
MaxRel == 14
\* largest index handed to a direct _clear_subtree call
MaxClear == 6
\* largest destination root of a subtree relocation
MaxDest == 4

Keys == {10 * k : k \in 1..MaxKey} \cup {25}
\* the keys handed to search: every key and one that is never inserted
SearchKeys == Keys \cup {99}

\* ------------------------------------------------------- program constants
\* the empty-slot sentinel
EMPTY == -1
\* default initial capacity of AVLTreeArray
DefaultCapacity == 10
\* initial capacities the constructor is called with
InitCaps == {0, 3, DefaultCapacity}

VARIABLES
    arr,      \* the AVLTreeArray object: [capacity, tree, heights, oob]
    root,     \* AVLTreeReference.root
    inserted, \* ghost: the set of keys handed to insert so far
    script,   \* ghost: the insert calls so far, while they follow a scenario
    initcap,  \* ghost: the capacity the store was constructed with
    last      \* ghost: the last call: [op, arg, pre, result]

vars == <<arr, root, inserted, script, initcap, last>>

\* ============================================================== array store

AVLTreeArray(cap) ==
    [capacity |-> cap,
     tree     |-> [i \in 0..(cap - 1) |-> EMPTY],
     heights  |-> [i \in 0..(cap - 1) |-> 0],
     oob      |-> FALSE]

InBounds(self, i) == i >= 0 /\ i < self.capacity

Fault(self) == [self EXCEPT !.oob = TRUE]

\* self.tree[i] = v
SetTree(self, i, v) ==
    IF self.oob THEN self
    ELSE IF ~InBounds(self, i) THEN Fault(self)
    ELSE [self EXCEPT !.tree[i] = v]

\* self.heights[i] = h
SetHeight(self, i, h) ==
    IF self.oob THEN self
    ELSE IF ~InBounds(self, i) THEN Fault(self)
    ELSE [self EXCEPT !.heights[i] = h]

Max(a, b) == IF a >= b THEN a ELSE b

\* mutant of _resize: the old arrays are not copied into the new block
_resize_NoCopy(self, required_index) ==
    IF self.oob THEN self
    ELSE IF required_index >= self.capacity
    THEN LET new_cap == required_index + 1
         IN [self EXCEPT
                !.tree = [i \in 0..(new_cap - 1) |-> EMPTY],
                !.heights = [i \in 0..(new_cap - 1) |-> 0],
                !.capacity = new_cap]
    ELSE self

\* mutant of _resize: amortized doubling instead of strict allocation
_resize_Doubling(self, required_index) ==
    IF self.oob THEN self
    ELSE IF required_index >= self.capacity
    THEN LET new_cap == 2 * (required_index + 1)
         IN [self EXCEPT
                !.tree = [i \in 0..(new_cap - 1) |->
                             IF i < self.capacity THEN self.tree[i] ELSE EMPTY],
                !.heights = [i \in 0..(new_cap - 1) |->
                             IF i < self.capacity THEN self.heights[i] ELSE 0],
                !.capacity = new_cap]
    ELSE self

_resize(self, required_index) ==
    IF self.oob THEN self
    ELSE IF required_index >= self.capacity
    THEN LET new_cap == required_index + 1
         IN [self EXCEPT
                !.tree = [i \in 0..(new_cap - 1) |->
                             IF i < self.capacity THEN self.tree[i] ELSE EMPTY],
                !.heights = [i \in 0..(new_cap - 1) |->
                             IF i < self.capacity THEN self.heights[i] ELSE 0],
                !.capacity = new_cap]
    ELSE self

get_height(self, idx) ==
    IF idx >= self.capacity \/ self.tree[idx] = EMPTY
    THEN 0
    ELSE self.heights[idx]

\* mutant of update_height: the node itself is not counted
update_height_NoPlusOne(self, idx) ==
    IF self.oob THEN self
    ELSE IF idx < self.capacity /\ self.tree[idx] # EMPTY
    THEN LET h_left == get_height(self, 2 * idx + 1)
             h_right == get_height(self, 2 * idx + 2)
         IN SetHeight(self, idx, Max(h_left, h_right))
    ELSE self

update_height(self, idx) ==
    IF self.oob THEN self
    ELSE IF idx < self.capacity /\ self.tree[idx] # EMPTY
    THEN LET h_left == get_height(self, 2 * idx + 1)
             h_right == get_height(self, 2 * idx + 2)
         IN SetHeight(self, idx, 1 + Max(h_left, h_right))
    ELSE self

get_balance(self, idx) ==
    IF idx >= self.capacity \/ self.tree[idx] = EMPTY
    THEN 0
    ELSE get_height(self, 2 * idx + 1) - get_height(self, 2 * idx + 2)

\* ------------------------------------------- index mapping and data movement

RECURSIVE _extract_subtree_data(_, _, _)

\* mutant of _extract_subtree_data: the children are recorded under their
\* absolute indices
_extract_subtree_data_AbsChild(self, root_idx, rel_base) ==
    IF root_idx >= self.capacity \/ self.tree[root_idx] = EMPTY
    THEN <<>>
    ELSE <<<<rel_base, self.tree[root_idx], self.heights[root_idx]>>>>
         \o _extract_subtree_data(self, 2 * root_idx + 1, 2 * root_idx + 1)
         \o _extract_subtree_data(self, 2 * root_idx + 2, 2 * root_idx + 2)

_extract_subtree_data(self, root_idx, rel_base) ==
    IF root_idx >= self.capacity \/ self.tree[root_idx] = EMPTY
    THEN <<>>
    ELSE <<<<rel_base, self.tree[root_idx], self.heights[root_idx]>>>>
         \o _extract_subtree_data(self, 2 * root_idx + 1, 2 * rel_base + 1)
         \o _extract_subtree_data(self, 2 * root_idx + 2, 2 * rel_base + 2)

RECURSIVE _clear_subtree(_, _)

\* mutant of _clear_subtree: the right child is not cleared
_clear_subtree_LeftOnly(self, idx) ==
    IF self.oob THEN self
    ELSE IF idx >= self.capacity \/ self.tree[idx] = EMPTY
    THEN self
    ELSE LET left == 2 * idx + 1
             s1 == SetHeight(SetTree(self, idx, EMPTY), idx, 0)
         IN _clear_subtree(s1, left)

_clear_subtree(self, idx) ==
    IF self.oob THEN self
    ELSE IF idx >= self.capacity \/ self.tree[idx] = EMPTY
    THEN self
    ELSE LET left == 2 * idx + 1
             right == 2 * idx + 2
             s1 == SetHeight(SetTree(self, idx, EMPTY), idx, 0)
         IN _clear_subtree(_clear_subtree(s1, left), right)

\* the first loop of _map_index: the moves from the relative node back to 0,
\* in the order they are appended to path
RECURSIVE TracePath(_)

\* mutant of TracePath: each move is put in front of the path, so that the
\* path already runs from the root down when it is popped from its end
TracePath_Prepend(curr) ==
    IF curr > 0
    THEN IF curr % 2 # 0
         THEN TracePath((curr - 1) \div 2) \o <<"L">>
         ELSE TracePath((curr - 2) \div 2) \o <<"R">>
    ELSE <<>>

TracePath(curr) ==
    IF curr > 0
    THEN IF curr % 2 # 0
         THEN <<"L">> \o TracePath((curr - 1) \div 2)
         ELSE <<"R">> \o TracePath((curr - 2) \div 2)
    ELSE <<>>

\* the second loop of _map_index: pop the moves off the end of path
RECURSIVE ApplyPath(_, _)

\* mutant of ApplyPath: the two moves are exchanged
ApplyPath_Mirrored(target, path) ==
    IF path = <<>>
    THEN target
    ELSE LET move == path[Len(path)]
             rest == SubSeq(path, 1, Len(path) - 1)
         IN IF move = "L"
            THEN ApplyPath(2 * target + 2, rest)
            ELSE ApplyPath(2 * target + 1, rest)

ApplyPath(target, path) ==
    IF path = <<>>
    THEN target
    ELSE LET move == path[Len(path)]
             rest == SubSeq(path, 1, Len(path) - 1)
         IN IF move = "L"
            THEN ApplyPath(2 * target + 1, rest)
            ELSE ApplyPath(2 * target + 2, rest)

_map_index(base_idx, rel_idx) ==
    IF rel_idx = 0
    THEN base_idx
    ELSE ApplyPath(base_idx, TracePath(rel_idx))

RECURSIVE _write_subtree_data(_, _, _)

\* mutant of _write_subtree_data: the relative index is used as the target,
\* without mapping it under the destination root
_write_subtree_data_NoMap(self, dest_root_idx, data) ==
    IF data = <<>>
    THEN self
    ELSE LET rel_idx == data[1][1]
             val == data[1][2]
             h == data[1][3]
             target_idx == rel_idx
             s1 == _resize(self, target_idx)
             s2 == SetTree(s1, target_idx, val)
             s3 == SetHeight(s2, target_idx, h)
         IN _write_subtree_data(s3, dest_root_idx, Tail(data))

\* mutant of _write_subtree_data: the buffered heights are not written back
_write_subtree_data_NoHeights(self, dest_root_idx, data) ==
    IF data = <<>>
    THEN self
    ELSE LET rel_idx == data[1][1]
             val == data[1][2]
             target_idx == _map_index(dest_root_idx, rel_idx)
             s1 == _resize(self, target_idx)
             s2 == SetTree(s1, target_idx, val)
         IN _write_subtree_data(s2, dest_root_idx, Tail(data))

_write_subtree_data(self, dest_root_idx, data) ==
    IF data = <<>>
    THEN self
    ELSE LET rel_idx == data[1][1]
             val == data[1][2]
             h == data[1][3]
             target_idx == _map_index(dest_root_idx, rel_idx)
             s1 == _resize(self, target_idx)
             s2 == SetTree(s1, target_idx, val)
             s3 == SetHeight(s2, target_idx, h)
         IN _write_subtree_data(s3, dest_root_idx, Tail(data))

\* ---------------------------------------------------------------- rotations

\* mutant of right_rotate: T2 and T3 are written to each other's place
right_rotate_SwapBuffers(self, y_idx) ==
    LET x_idx == 2 * y_idx + 1
        t2_idx == 2 * x_idx + 2
    IN IF self.oob THEN self
       ELSE IF ~InBounds(self, x_idx) \/ ~InBounds(self, y_idx) THEN Fault(self)
       ELSE
       LET val_x == self.tree[x_idx]
           val_y == self.tree[y_idx]
           buffer_A == _extract_subtree_data(self, 2 * x_idx + 1, 0)
           buffer_T2 == _extract_subtree_data(self, t2_idx, 0)
           buffer_C == _extract_subtree_data(self, 2 * y_idx + 2, 0)
           s1 == _clear_subtree(self, y_idx)
           s2 == SetTree(s1, y_idx, val_x)
           new_y_pos == 2 * y_idx + 2
           s3 == _resize(s2, new_y_pos)
           s4 == SetTree(s3, new_y_pos, val_y)
           s5 == _write_subtree_data(s4, 2 * y_idx + 1, buffer_A)
           s6 == _write_subtree_data(s5, 2 * new_y_pos + 1, buffer_C)
           s7 == _write_subtree_data(s6, 2 * new_y_pos + 2, buffer_T2)
           s8 == update_height(s7, new_y_pos)
       IN update_height(s8, y_idx)

\* mutant of right_rotate: the store is not grown before y is moved down
right_rotate_NoResize(self, y_idx) ==
    LET x_idx == 2 * y_idx + 1
        t2_idx == 2 * x_idx + 2
    IN IF self.oob THEN self
       ELSE IF ~InBounds(self, x_idx) \/ ~InBounds(self, y_idx) THEN Fault(self)
       ELSE
       LET val_x == self.tree[x_idx]
           val_y == self.tree[y_idx]
           buffer_A == _extract_subtree_data(self, 2 * x_idx + 1, 0)
           buffer_T2 == _extract_subtree_data(self, t2_idx, 0)
           buffer_C == _extract_subtree_data(self, 2 * y_idx + 2, 0)
           s1 == _clear_subtree(self, y_idx)
           s2 == SetTree(s1, y_idx, val_x)
           new_y_pos == 2 * y_idx + 2
           s4 == SetTree(s2, new_y_pos, val_y)
           s5 == _write_subtree_data(s4, 2 * y_idx + 1, buffer_A)
           s6 == _write_subtree_data(s5, 2 * new_y_pos + 2, buffer_C)
           s7 == _write_subtree_data(s6, 2 * new_y_pos + 1, buffer_T2)
           s8 == update_height(s7, new_y_pos)
       IN update_height(s8, y_idx)

right_rotate(self, y_idx) ==
    LET x_idx == 2 * y_idx + 1
        t2_idx == 2 * x_idx + 2
    IN IF self.oob THEN self
       ELSE IF ~InBounds(self, x_idx) \/ ~InBounds(self, y_idx) THEN Fault(self)
       ELSE
       LET val_x == self.tree[x_idx]
           val_y == self.tree[y_idx]
           buffer_A == _extract_subtree_data(self, 2 * x_idx + 1, 0)
           buffer_T2 == _extract_subtree_data(self, t2_idx, 0)
           buffer_C == _extract_subtree_data(self, 2 * y_idx + 2, 0)
           s1 == _clear_subtree(self, y_idx)
           s2 == SetTree(s1, y_idx, val_x)
           new_y_pos == 2 * y_idx + 2
           s3 == _resize(s2, new_y_pos)
           s4 == SetTree(s3, new_y_pos, val_y)
           s5 == _write_subtree_data(s4, 2 * y_idx + 1, buffer_A)
           s6 == _write_subtree_data(s5, 2 * new_y_pos + 2, buffer_C)
           s7 == _write_subtree_data(s6, 2 * new_y_pos + 1, buffer_T2)
           s8 == update_height(s7, new_y_pos)
       IN update_height(s8, y_idx)

\* mutant of left_rotate: x is not written to its new slot
left_rotate_NoDemote(self, x_idx) ==
    LET y_idx == 2 * x_idx + 2
        t2_idx == 2 * y_idx + 1
    IN IF self.oob THEN self
       ELSE IF ~InBounds(self, x_idx) \/ ~InBounds(self, y_idx) THEN Fault(self)
       ELSE
       LET val_x == self.tree[x_idx]
           val_y == self.tree[y_idx]
           buffer_A == _extract_subtree_data(self, 2 * x_idx + 1, 0)
           buffer_T2 == _extract_subtree_data(self, t2_idx, 0)
           buffer_C == _extract_subtree_data(self, 2 * y_idx + 2, 0)
           s1 == _clear_subtree(self, x_idx)
           s2 == SetTree(s1, x_idx, val_y)
           new_x_pos == 2 * x_idx + 1
           s3 == _resize(s2, new_x_pos)
           s5 == _write_subtree_data(s3, 2 * x_idx + 2, buffer_C)
           s6 == _write_subtree_data(s5, 2 * new_x_pos + 1, buffer_A)
           s7 == _write_subtree_data(s6, 2 * new_x_pos + 2, buffer_T2)
           s8 == update_height(s7, new_x_pos)
       IN update_height(s8, x_idx)

left_rotate(self, x_idx) ==
    LET y_idx == 2 * x_idx + 2
        t2_idx == 2 * y_idx + 1
    IN IF self.oob THEN self
       ELSE IF ~InBounds(self, x_idx) \/ ~InBounds(self, y_idx) THEN Fault(self)
       ELSE
       LET val_x == self.tree[x_idx]
           val_y == self.tree[y_idx]
           buffer_A == _extract_subtree_data(self, 2 * x_idx + 1, 0)
           buffer_T2 == _extract_subtree_data(self, t2_idx, 0)
           buffer_C == _extract_subtree_data(self, 2 * y_idx + 2, 0)
           s1 == _clear_subtree(self, x_idx)
           s2 == SetTree(s1, x_idx, val_y)
           new_x_pos == 2 * x_idx + 1
           s3 == _resize(s2, new_x_pos)
           s4 == SetTree(s3, new_x_pos, val_x)
           s5 == _write_subtree_data(s4, 2 * x_idx + 2, buffer_C)
           s6 == _write_subtree_data(s5, 2 * new_x_pos + 1, buffer_A)
           s7 == _write_subtree_data(s6, 2 * new_x_pos + 2, buffer_T2)
           s8 == update_height(s7, new_x_pos)
       IN update_height(s8, x_idx)

\* ---------------------------------------------------------------- insertion

\* steps 2-4 of _insert_rec, run at idx after the recursive call returned
\* mutant of Rebalance: the left-right case is missing
Rebalance_NoLR(self, idx, key) ==
    LET s2 == update_height(self, idx)
        balance == get_balance(s2, idx)
        left_child == 2 * idx + 1
        right_child == 2 * idx + 2
    IN IF s2.oob THEN s2
       ELSE IF (balance > 1 /\ ~InBounds(s2, left_child))
               \/ (balance < -1 /\ ~InBounds(s2, right_child))
       THEN Fault(s2)
       ELSE IF balance > 1 /\ key < s2.tree[left_child]
       THEN right_rotate(s2, idx)
       ELSE IF balance < -1 /\ key > s2.tree[right_child]
       THEN left_rotate(s2, idx)
       ELSE IF balance < -1 /\ key < s2.tree[right_child]
       THEN left_rotate(right_rotate(s2, right_child), idx)
       ELSE s2

\* mutant of Rebalance: the right-left case rotates the node only
Rebalance_RLSingle(self, idx, key) ==
    LET s2 == update_height(self, idx)
        balance == get_balance(s2, idx)
        left_child == 2 * idx + 1
        right_child == 2 * idx + 2
    IN IF s2.oob THEN s2
       ELSE IF (balance > 1 /\ ~InBounds(s2, left_child))
               \/ (balance < -1 /\ ~InBounds(s2, right_child))
       THEN Fault(s2)
       ELSE IF balance > 1 /\ key < s2.tree[left_child]
       THEN right_rotate(s2, idx)
       ELSE IF balance < -1 /\ key > s2.tree[right_child]
       THEN left_rotate(s2, idx)
       ELSE IF balance > 1 /\ key > s2.tree[left_child]
       THEN right_rotate(left_rotate(s2, left_child), idx)
       ELSE IF balance < -1 /\ key < s2.tree[right_child]
       THEN left_rotate(s2, idx)
       ELSE s2

\* mutant of Rebalance: the right-heavy cases wait for a balance below -2
Rebalance_LateRR(self, idx, key) ==
    LET s2 == update_height(self, idx)
        balance == get_balance(s2, idx)
        left_child == 2 * idx + 1
        right_child == 2 * idx + 2
    IN IF s2.oob THEN s2
       ELSE IF (balance > 1 /\ ~InBounds(s2, left_child))
               \/ (balance < -2 /\ ~InBounds(s2, right_child))
       THEN Fault(s2)
       ELSE IF balance > 1 /\ key < s2.tree[left_child]
       THEN right_rotate(s2, idx)
       ELSE IF balance < -2 /\ key > s2.tree[right_child]
       THEN left_rotate(s2, idx)
       ELSE IF balance > 1 /\ key > s2.tree[left_child]
       THEN right_rotate(left_rotate(s2, left_child), idx)
       ELSE IF balance < -2 /\ key < s2.tree[right_child]
       THEN left_rotate(right_rotate(s2, right_child), idx)
       ELSE s2

Rebalance(self, idx, key) ==
    LET s2 == update_height(self, idx)
        balance == get_balance(s2, idx)
        left_child == 2 * idx + 1
        right_child == 2 * idx + 2
    IN IF s2.oob THEN s2
       ELSE IF (balance > 1 /\ ~InBounds(s2, left_child))
               \/ (balance < -1 /\ ~InBounds(s2, right_child))
       THEN Fault(s2)
       ELSE IF balance > 1 /\ key < s2.tree[left_child]
       THEN right_rotate(s2, idx)
       ELSE IF balance < -1 /\ key > s2.tree[right_child]
       THEN left_rotate(s2, idx)
       ELSE IF balance > 1 /\ key > s2.tree[left_child]
       THEN right_rotate(left_rotate(s2, left_child), idx)
       ELSE IF balance < -1 /\ key < s2.tree[right_child]
       THEN left_rotate(right_rotate(s2, right_child), idx)
       ELSE s2

RECURSIVE _insert_rec(_, _, _)

\* mutant of _insert_rec: an equal key descends to the right
_insert_rec_DupRight(self, idx, key) ==
    LET s0 == _resize(self, idx)
    IN IF s0.oob THEN s0
       ELSE IF ~InBounds(s0, idx) THEN Fault(s0)
       ELSE IF s0.tree[idx] = EMPTY
       THEN SetHeight(SetTree(s0, idx, key), idx, 1)
       ELSE IF key < s0.tree[idx]
       THEN Rebalance(_insert_rec(s0, 2 * idx + 1, key), idx, key)
       ELSE Rebalance(_insert_rec(s0, 2 * idx + 2, key), idx, key)

_insert_rec(self, idx, key) ==
    LET s0 == _resize(self, idx)
    IN IF s0.oob THEN s0
       ELSE IF ~InBounds(s0, idx) THEN Fault(s0)
       ELSE IF s0.tree[idx] = EMPTY
       THEN SetHeight(SetTree(s0, idx, key), idx, 1)
       ELSE IF key < s0.tree[idx]
       THEN Rebalance(_insert_rec(s0, 2 * idx + 1, key), idx, key)
       ELSE IF key > s0.tree[idx]
       THEN Rebalance(_insert_rec(s0, 2 * idx + 2, key), idx, key)
       ELSE s0

insert(self, key) == _insert_rec(self, 0, key)

\* how many of the four conditions of step 4 of _insert_rec hold at idx, given
\* the store after update_height(idx)
CasesMatching(self, idx, key) ==
    LET balance == get_balance(self, idx)
        left_child == 2 * idx + 1
        right_child == 2 * idx + 2
        LL == balance > 1 /\ InBounds(self, left_child) /\ key < self.tree[left_child]
        RR == balance < -1 /\ InBounds(self, right_child) /\ key > self.tree[right_child]
        LR == balance > 1 /\ InBounds(self, left_child) /\ key > self.tree[left_child]
        RL == balance < -1 /\ InBounds(self, right_child) /\ key < self.tree[right_child]
    IN (IF LL THEN 1 ELSE 0) + (IF RR THEN 1 ELSE 0)
       + (IF LR THEN 1 ELSE 0) + (IF RL THEN 1 ELSE 0)

\* ghost: what _insert_rec(self, idx, key) meets on its unwind, deepest
\* ancestor first: for each index at which steps 2-4 run, the balance found
\* in step 3, the number of conditions of step 4 that hold, and whether
\* step 4 changed the store
RECURSIVE InsertEvents(_, _, _)
InsertEvents(self, idx, key) ==
    LET s0 == _resize(self, idx)
    IN IF s0.oob \/ ~InBounds(s0, idx) THEN <<>>
       ELSE IF s0.tree[idx] = EMPTY \/ key = s0.tree[idx] THEN <<>>
       ELSE LET child == IF key < s0.tree[idx] THEN 2 * idx + 1 ELSE 2 * idx + 2
                s1 == _insert_rec(s0, child, key)
                s2 == update_height(s1, idx)
            IN InsertEvents(s0, child, key)
               \o <<[idx |-> idx,
                     balance |-> get_balance(s2, idx),
                     cases |-> CasesMatching(s2, idx, key),
                     rotated |-> Rebalance(s1, idx, key) # s2]>>

\* ------------------------------------------------------------------- search

\* the loop of search, from curr on
RECURSIVE SearchFrom(_, _, _)
SearchFrom(self, curr, key) ==
    IF curr < self.capacity /\ self.tree[curr] # EMPTY
    THEN IF key = self.tree[curr]
         THEN TRUE
         ELSE IF key < self.tree[curr]
         THEN SearchFrom(self, 2 * curr + 1, key)
         ELSE SearchFrom(self, 2 * curr + 2, key)
    ELSE FALSE

\* the indices at which the loop of search subscripts self.tree, from curr on
RECURSIVE SearchReads(_, _, _)
SearchReads(self, curr, key) ==
    IF curr < self.capacity
    THEN {curr} \cup
         (IF InBounds(self, curr) /\ self.tree[curr] # EMPTY /\ key # self.tree[curr]
          THEN IF key < self.tree[curr]
               THEN SearchReads(self, 2 * curr + 1, key)
               ELSE SearchReads(self, 2 * curr + 2, key)
          ELSE {})
    ELSE {}

search(self, key) == SearchFrom(self, 0, key)

\* ========================================================== reference tree
\* A Node is the record [isNone, key, left, right, height]; None has no node.

None == [isNone |-> TRUE]

Node(key) == [isNone |-> FALSE, key |-> key, left |-> None, right |-> None,
              height |-> 1]

ref_get_height(node) == IF node.isNone THEN 0 ELSE node.height

ref_get_balance(node) ==
    IF node.isNone
    THEN 0
    ELSE ref_get_height(node.left) - ref_get_height(node.right)

ref_update_height(node) ==
    IF node.isNone
    THEN node
    ELSE [node EXCEPT !.height = 1 + Max(ref_get_height(node.left),
                                         ref_get_height(node.right))]

ref_right_rotate(y) ==
    LET x == y.left
        T2 == x.right
        y1 == ref_update_height([y EXCEPT !.left = T2])
    IN ref_update_height([x EXCEPT !.right = y1])

ref_left_rotate(x) ==
    LET y == x.right
        T2 == y.left
        x1 == ref_update_height([x EXCEPT !.right = T2])
    IN ref_update_height([y EXCEPT !.left = x1])

RECURSIVE ref_insert(_, _)
ref_insert(node, key) ==
    IF node.isNone
    THEN Node(key)
    ELSE IF key = node.key
    THEN node
    ELSE LET r1 == IF key < node.key
                   THEN [node EXCEPT !.left = ref_insert(node.left, key)]
                   ELSE [node EXCEPT !.right = ref_insert(node.right, key)]
             r2 == ref_update_height(r1)
             balance == ref_get_balance(r2)
         IN IF balance > 1 /\ key < r2.left.key
            THEN ref_right_rotate(r2)
            ELSE IF balance < -1 /\ key > r2.right.key
            THEN ref_left_rotate(r2)
            ELSE IF balance > 1 /\ key > r2.left.key
            THEN ref_right_rotate([r2 EXCEPT !.left = ref_left_rotate(r2.left)])
            ELSE IF balance < -1 /\ key < r2.right.key
            THEN ref_left_rotate([r2 EXCEPT !.right = ref_right_rotate(r2.right)])
            ELSE r2

\* ============================================================ state machine

Call(op, arg, pre, result) == [op |-> op, arg |-> arg, pre |-> pre, result |-> result]

\* the documented scenarios: main.py's data and the single right rotation
Scenarios == {<<10, 20, 30, 40, 50, 25>>, <<30, 20, 10>>}

\* the value of script once the insert calls have left every scenario
OffScript == <<EMPTY>>

IsPrefix(p, q) == Len(p) <= Len(q) /\ SubSeq(q, 1, Len(p)) = p

Follow(sc, key) ==
    IF sc # OffScript /\ \E q \in Scenarios : IsPrefix(Append(sc, key), q)
    THEN Append(sc, key)
    ELSE OffScript

\* the program is still building the tree (no direct call of an internal
\* operation has been made)
Building == last.op \in {"init", "insert", "search"}

Init ==
    \E cap \in InitCaps :
        /\ arr = AVLTreeArray(cap)
        /\ root = None
        /\ inserted = {}
        /\ script = <<>>
        /\ initcap = cap
        /\ last = Call("init", cap, AVLTreeArray(cap), FALSE)

\* arr.insert(key) and ref.root = ref.insert(ref.root, key), as main.py and
\* benchmark.py run them on the same data
Insert(key) ==
    /\ Building
    /\ ~arr.oob
    /\ arr' = insert(arr, key)
    /\ root' = ref_insert(root, key)
    /\ inserted' = inserted \cup {key}
    /\ script' = Follow(script, key)
    /\ last' = Call("insert", key, arr, key \in inserted)
    /\ UNCHANGED initcap

\* arr.search(key)
Search(key) ==
    /\ Building
    /\ ~arr.oob
    /\ last' = Call("search", key, arr, search(arr, key))
    /\ UNCHANGED <<arr, root, inserted, script, initcap>>

\* arr._resize(required_index), called directly
Resize(required_index) ==
    /\ Building
    /\ ~arr.oob
    /\ arr' = _resize(arr, required_index)
    /\ last' = Call("_resize", required_index, arr, FALSE)
    /\ UNCHANGED <<root, inserted, script, initcap>>

Occupied(self, i) == InBounds(self, i) /\ self.tree[i] # EMPTY

\* arr.right_rotate(y_idx), called directly with y and its left child occupied
RightRotate(y_idx) ==
    /\ Building
    /\ ~arr.oob
    /\ Occupied(arr, y_idx)
    /\ Occupied(arr, 2 * y_idx + 1)
    /\ arr' = right_rotate(arr, y_idx)
    /\ last' = Call("right_rotate", y_idx, arr, FALSE)
    /\ UNCHANGED <<root, inserted, script, initcap>>

\* arr.left_rotate(x_idx), called directly with x and its right child occupied
LeftRotate(x_idx) ==
    /\ Building
    /\ ~arr.oob
    /\ Occupied(arr, x_idx)
    /\ Occupied(arr, 2 * x_idx + 2)
    /\ arr' = left_rotate(arr, x_idx)
    /\ last' = Call("left_rotate", x_idx, arr, FALSE)
    /\ UNCHANGED <<root, inserted, script, initcap>>

\* the program of main.py / benchmark.py: inserts and searches
Next ==
    \/ \E key \in Keys : Insert(key)
    \/ \E key \in SearchKeys : Search(key)

Spec == Init /\ [][Next]_vars

\* the same, followed by one direct call of an internal operation
NextUnit ==
    \/ \E key \in Keys : Insert(key)
    \/ \E key \in SearchKeys : Search(key)
    \/ \E r \in 0..MaxResize : Resize(r)
    \/ \E i \in 0..(arr.capacity - 1) : RightRotate(i)
    \/ \E i \in 0..(arr.capacity - 1) : LeftRotate(i)

SpecUnit == Init /\ [][NextUnit]_vars

\* slot j lies in the implied subtree of slot i (i itself included)
RECURSIVE IsUnder(_, _)
IsUnder(j, i) ==
    IF j = i THEN TRUE
    ELSE IF j < i THEN FALSE
    ELSE IsUnder((j - 1) \div 2, i)

\* the store holds what inserts alone have built
Grown == last.op \in {"init", "insert"}

\* arr._clear_subtree(idx), called directly on a store built by inserts or
\* left by one relocation
ClearSubtree(idx) ==
    /\ Grown \/ last.op = "relocate"
    /\ ~arr.oob
    /\ arr' = _clear_subtree(arr, idx)
    /\ last' = Call("_clear_subtree", idx, arr, FALSE)
    /\ UNCHANGED <<root, inserted, script, initcap>>

\* records = arr._extract_subtree_data(i); arr._clear_subtree(i);
\* arr._write_subtree_data(j, records), called directly on a store built by
\* inserts, for an occupied slot i and a destination j whose implied subtree
\* is empty once i is cleared
Relocate(i, j) ==
    LET records == _extract_subtree_data(arr, i, 0)
        cleared == _clear_subtree(arr, i)
    IN /\ Grown
       /\ ~arr.oob
       /\ Occupied(arr, i)
       /\ \A n \in 0..(cleared.capacity - 1) :
             IsUnder(n, j) => cleared.tree[n] = EMPTY
       /\ arr' = _write_subtree_data(cleared, j, records)
       /\ last' = Call("relocate", <<i, j>>, arr, records)
       /\ UNCHANGED <<root, inserted, script, initcap>>

\* arr._map_index(base_idx, rel_idx), called directly: it reads no state
MapIndex(base_idx, rel_idx) ==
    /\ ~arr.oob
    /\ last' = Call("_map_index", <<base_idx, rel_idx>>, arr,
                    _map_index(base_idx, rel_idx))
    /\ UNCHANGED <<arr, root, inserted, script, initcap>>

\* inserts, followed by a direct clear or by one relocation of a subtree and
\* then a direct clear
NextMove ==
    \/ \E key \in Keys : Insert(key)
    \/ \E idx \in 0..MaxClear : ClearSubtree(idx)
    \/ \E i \in 0..MaxClear : \E j \in 0..MaxDest : Relocate(i, j)

SpecMove == Init /\ [][NextMove]_vars

\* direct calls of the index mapping on every pair of small arguments
NextMap == \E b \in 0..MaxBase : \E r \in 0..MaxRel : MapIndex(b, r)

SpecMap == Init /\ [][NextMap]_vars

\* ================================================================ properties

Abs(n) == IF n < 0 THEN -n ELSE n

Slots(self) == 0..(self.capacity - 1)

OccupiedSlots(self) == {i \in Slots(self) : self.tree[i] # EMPTY}

\* the height of the tree of occupied slots hanging from slot i
RECURSIVE TrueHeight(_, _)
TrueHeight(self, i) ==
    IF ~Occupied(self, i)
    THEN 0
    ELSE 1 + Max(TrueHeight(self, 2 * i + 1), TrueHeight(self, 2 * i + 2))

\* the keys stored in the array
StoredKeys(self) == {self.tree[i] : i \in OccupiedSlots(self)}

\* the (slot, key, height) triples of the array store
ArrayTriples(self) == {<<i, self.tree[i], self.heights[i]>> : i \in OccupiedSlots(self)}

\* the same triples of the reference tree, its root laid at slot i
RECURSIVE RefTriples(_, _)
RefTriples(node, i) ==
    IF node.isNone
    THEN {}
    ELSE {<<i, node.key, node.height>>}
         \cup RefTriples(node.left, 2 * i + 1)
         \cup RefTriples(node.right, 2 * i + 2)

\* the last call was an insert that rotated at the root
RootRotated ==
    /\ last.op = "insert"
    /\ Occupied(last.pre, 0)
    /\ arr.tree[0] # last.pre.tree[0]

\* the last call was an insert that reallocated the arrays
Grew == last.op = "insert" /\ arr.capacity > last.pre.capacity

\* C1: after any sequence of inserts every occupied slot is balanced: the
\* heights of its two implied children differ by at most one.
C1_Balanced ==
    \A i \in OccupiedSlots(arr) :
        Abs(get_height(arr, 2 * i + 1) - get_height(arr, 2 * i + 2)) <= 1

\* a rotation to the left at the root (the root key grew) has just restored
\* the balance of a tree of at least five keys
C1_Witness ==
    /\ RootRotated
    /\ arr.tree[0] > last.pre.tree[0]
    /\ Cardinality(inserted) >= 5

\* C2: after any sequence of inserts the cached height of every occupied
\* slot is 1 + max of its children's heights, and is the true height of the
\* subtree of occupied slots rooted there.
C2_HeightsExact ==
    \A i \in OccupiedSlots(arr) :
        /\ arr.heights[i] = 1 + Max(get_height(arr, 2 * i + 1), get_height(arr, 2 * i + 2))
        /\ arr.heights[i] = TrueHeight(arr, i)

\* a rotation at the root has rewritten the slots of a tree of height 3
C2_Witness ==
    /\ RootRotated
    /\ arr.heights[0] = 3
    /\ TrueHeight(arr, 0) = 3

\* C3: after any sequence of inserts, every occupied slot under the left
\* child of an occupied slot holds a smaller key and every occupied slot
\* under its right child holds a larger key.
C3_BSTOrder ==
    \A i \in OccupiedSlots(arr) : \A j \in OccupiedSlots(arr) :
        /\ IsUnder(j, 2 * i + 1) => arr.tree[j] < arr.tree[i]
        /\ IsUnder(j, 2 * i + 2) => arr.tree[j] > arr.tree[i]

\* a rotation at the root has relocated subtrees and the root has occupied
\* grandchildren on both sides
C3_Witness ==
    /\ RootRotated
    /\ \E j \in OccupiedSlots(arr) : IsUnder(j, 3) \/ IsUnder(j, 4)
    /\ \E j \in OccupiedSlots(arr) : IsUnder(j, 5) \/ IsUnder(j, 6)

\* C4: after every insert, search finds exactly the keys inserted so far;
\* the array holds each inserted key once and no other key.
C4_SearchExact ==
    /\ \A k \in SearchKeys : search(arr, k) = (k \in inserted)
    /\ StoredKeys(arr) = inserted
    /\ Cardinality(OccupiedSlots(arr)) = Cardinality(inserted)
    /\ last.op = "search" => last.result = (last.arg \in inserted)

\* the insert of a fifth or later key has reallocated the arrays and rotated
\* at the root
C4_Witness ==
    /\ Grew
    /\ RootRotated
    /\ Cardinality(inserted) >= 5

\* C5: after every insert the array store and the reference tree are the
\* same tree: same slots, same keys, same heights.
C5_SameAsReference == ArrayTriples(arr) = RefTriples(root, 0)

\* both trees hold six keys after a rotation at the root
C5_Witness ==
    /\ RootRotated
    /\ Cardinality(RefTriples(root, 0)) = 6
    /\ Cardinality(ArrayTriples(arr)) = 6

\* C6: inserting a key that is already present changes nothing: capacity,
\* key array and height array are as before, and so is every search result.
C6_DuplicateNoOp ==
    (last.op = "insert" /\ last.result) =>
        /\ arr.capacity = last.pre.capacity
        /\ arr.tree = last.pre.tree
        /\ arr.heights = last.pre.heights
        /\ \A k \in SearchKeys : search(arr, k) = search(last.pre, k)

\* a key that sits two levels below the root of a tree of height 3 has been
\* inserted again
C6_Witness ==
    /\ last.op = "insert"
    /\ last.result
    /\ get_height(last.pre, 0) = 3
    /\ \E i \in 3..6 : Occupied(last.pre, i) /\ last.pre.tree[i] = last.arg

\* the moves that lead from slot i down to slot j of its implied subtree
RECURSIVE RelPath(_, _)
RelPath(j, i) ==
    IF j = i
    THEN <<>>
    ELSE Append(RelPath((j - 1) \div 2, i), IF j % 2 = 1 THEN "L" ELSE "R")

\* shape and keys of the implied subtree of slot i: the (path, key) pairs of
\* every occupied slot under i
SubtreeAt(self, i) ==
    {<<RelPath(j, i), self.tree[j]>> : j \in {n \in OccupiedSlots(self) : IsUnder(n, i)}}

\* the keys met by an in-order walk of the occupied slots from slot i
RECURSIVE InOrder(_, _)
InOrder(self, i) ==
    IF ~Occupied(self, i)
    THEN <<>>
    ELSE InOrder(self, 2 * i + 1) \o <<self.tree[i]>> \o InOrder(self, 2 * i + 2)

\* C7: right_rotate(y) with y and x = 2y+1 occupied puts x's key in slot y,
\* y's key in slot 2y+2, T1 under 2y+1, T2 under 2(2y+2)+1 and T3 under
\* 2(2y+2)+2 with the same shape and keys, and nothing else under y;
\* left_rotate is the mirror image; inserting 30, 20, 10 gives 20, 10, 30 in
\* slots 0, 1, 2.
C7_RotationLayout ==
    /\ last.op = "right_rotate" =>
         LET y == last.arg
             x == 2 * y + 1
             pre == last.pre
         IN /\ ~arr.oob
            /\ Occupied(arr, y) /\ arr.tree[y] = pre.tree[x]
            /\ Occupied(arr, 2 * y + 2) /\ arr.tree[2 * y + 2] = pre.tree[y]
            /\ SubtreeAt(arr, 2 * y + 1) = SubtreeAt(pre, 2 * x + 1)
            /\ SubtreeAt(arr, 2 * (2 * y + 2) + 1) = SubtreeAt(pre, 2 * x + 2)
            /\ SubtreeAt(arr, 2 * (2 * y + 2) + 2) = SubtreeAt(pre, 2 * y + 2)
            /\ Cardinality(SubtreeAt(arr, y)) = Cardinality(SubtreeAt(pre, y))
    /\ last.op = "left_rotate" =>
         LET x == last.arg
             y == 2 * x + 2
             pre == last.pre
         IN /\ ~arr.oob
            /\ Occupied(arr, x) /\ arr.tree[x] = pre.tree[y]
            /\ Occupied(arr, 2 * x + 1) /\ arr.tree[2 * x + 1] = pre.tree[x]
            /\ SubtreeAt(arr, 2 * x + 2) = SubtreeAt(pre, 2 * y + 2)
            /\ SubtreeAt(arr, 2 * (2 * x + 1) + 1) = SubtreeAt(pre, 2 * x + 1)
            /\ SubtreeAt(arr, 2 * (2 * x + 1) + 2) = SubtreeAt(pre, 2 * y + 1)
            /\ Cardinality(SubtreeAt(arr, x)) = Cardinality(SubtreeAt(pre, x))
    /\ (script = <<30, 20, 10>> /\ Building) =>
            /\ arr.tree[0] = 20 /\ arr.tree[1] = 10 /\ arr.tree[2] = 30
            /\ OccupiedSlots(arr) = {0, 1, 2}

\* right_rotate has been called on a slot whose T1, T2 and T3 are all
\* occupied
C7_Witness ==
    /\ last.op = "right_rotate"
    /\ Occupied(last.pre, 2 * (2 * last.arg + 1) + 1)
    /\ Occupied(last.pre, 2 * (2 * last.arg + 1) + 2)
    /\ Occupied(last.pre, 2 * last.arg + 2)

\* C8: _resize(r) leaves capacity = max(old capacity, r+1), keeps key and
\* height of every old index, fills every new index with the sentinel and
\* height 0; no operation ever lowers the capacity.
C8_ResizeExact ==
    /\ last.op = "_resize" =>
         LET pre == last.pre
         IN /\ arr.capacity = Max(pre.capacity, last.arg + 1)
            /\ DOMAIN arr.tree = Slots(arr)
            /\ DOMAIN arr.heights = Slots(arr)
            /\ \A i \in Slots(arr) :
                 IF i < pre.capacity
                 THEN arr.tree[i] = pre.tree[i] /\ arr.heights[i] = pre.heights[i]
                 ELSE arr.tree[i] = EMPTY /\ arr.heights[i] = 0
    /\ last.op # "init" => arr.capacity >= last.pre.capacity

\* a store holding at least three keys has been grown by a direct call
C8_Witness ==
    /\ last.op = "_resize"
    /\ last.arg >= last.pre.capacity
    /\ Cardinality(OccupiedSlots(last.pre)) >= 3
    /\ arr.capacity > last.pre.capacity

\* C9: no insert (with its rotations) and no search subscripts the key or
\* height array outside 0..capacity-1.
C9_InBounds ==
    /\ ~arr.oob
    /\ DOMAIN arr.tree = Slots(arr)
    /\ DOMAIN arr.heights = Slots(arr)
    /\ \A k \in SearchKeys : SearchReads(arr, 0, k) \subseteq Slots(arr)

\* the third key went to slot 5 and became the root by a right-left double
\* rotation, whose right_rotate(2) grew the store to reach slot 6
C9_Witness ==
    /\ RootRotated
    /\ Grew
    /\ Cardinality(inserted) = 3
    /\ last.pre.capacity = 3
    /\ arr.capacity = 7
    /\ arr.tree[0] = last.arg
    /\ last.arg > last.pre.tree[0]

\* C10: 10, 20, 30, 40, 50, 25 inserted in that order into an empty store of
\* initial capacity 10 give the in-order walk 10, 20, 25, 30, 40, 50, root
\* height 3, search(25) true and search(99) false.
C10_MainScenario ==
    (script = <<10, 20, 30, 40, 50, 25>> /\ initcap = DefaultCapacity) =>
        /\ InOrder(arr, 0) = <<10, 20, 25, 30, 40, 50>>
        /\ Cardinality(OccupiedSlots(arr)) = 6
        /\ get_height(arr, 0) = 3
        /\ search(arr, 25)
        /\ ~search(arr, 99)

\* main.py's data has been inserted into a store of the default capacity
C10_Witness ==
    /\ script = <<10, 20, 30, 40, 50, 25>>
    /\ initcap = DefaultCapacity
    /\ last.op = "insert"
    /\ last.arg = 25

\* C11: _map_index(b, 0) = b, _map_index(b, 2r+1) = 2*_map_index(b, r)+1 and
\* _map_index(b, 2r+2) = 2*_map_index(b, r)+2; hence _map_index(0, r) = r,
\* the mapping is injective in r for a fixed b, and every result lies in the
\* implied subtree of b (at the end of the same moves that lead from 0 to r).
C11_MapIndexRecurrence ==
    last.op = "_map_index" =>
        LET b == last.arg[1]
            r == last.arg[2]
            m == last.result
        IN /\ r = 0 => m = b
           /\ _map_index(b, 2 * r + 1) = 2 * m + 1
           /\ _map_index(b, 2 * r + 2) = 2 * m + 2
           /\ b = 0 => m = r
           /\ \A r2 \in 0..MaxRel : r2 # r => _map_index(b, r2) # m
           /\ IsUnder(m, b)
           /\ RelPath(m, b) = RelPath(r, 0)

\* a node three moves down (left, right, right: relative index 10) has been
\* mapped under a base other than the root
C11_Witness ==
    /\ last.op = "_map_index"
    /\ last.arg = <<2, 10>>
    /\ last.result = 26

\* C12: on the unwind of one insert call at most one ancestor is rebalanced:
\* an ancestor whose balance leaves [-1, 1] matches exactly one of the four
\* cases and is rotated, it is the lowest such ancestor, no ancestor above it
\* finds a balance outside [-1, 1], and a balanced ancestor is left alone.
C12_OneRebalance ==
    last.op = "insert" =>
        LET ev == InsertEvents(last.pre, 0, last.arg)
            N == 1..Len(ev)
        IN /\ \A n \in N : Abs(ev[n].balance) > 1 => ev[n].cases = 1 /\ ev[n].rotated
           /\ \A n \in N : Abs(ev[n].balance) <= 1 => ev[n].cases = 0 /\ ~ev[n].rotated
           /\ Cardinality({n \in N : ev[n].rotated}) <= 1
           /\ \A n \in N : \A m \in N :
                (ev[n].rotated /\ m # n) => Abs(ev[m].balance) <= 1
           /\ \A n \in N : Abs(get_balance(arr, ev[n].idx)) <= 1

\* the insert made a double rotation at slot 2, below the root, and the root
\* above it was found balanced
C12_Witness ==
    /\ last.op = "insert"
    /\ ~last.result
    /\ LET ev == InsertEvents(last.pre, 0, last.arg)
       IN /\ Len(ev) = 3
          /\ ev[1].idx = 6 /\ ~ev[1].rotated
          /\ ev[2].idx = 2 /\ ev[2].rotated /\ ev[2].balance < -1
          /\ ev[3].idx = 0 /\ ~ev[3].rotated
    /\ arr.tree[2] = last.arg

\* every occupied slot other than the root has an occupied parent
Connected(self) ==
    \A i \in OccupiedSlots(self) : i > 0 => Occupied(self, (i - 1) \div 2)

\* C15: between inserts every occupied slot i > 0 has an occupied parent slot
\* (i-1) div 2: the occupied slots form one tree rooted at slot 0, and no
\* rotation leaves a key at a slot cut off from the root.
C15_Connected == Connected(arr)

\* a rotation at the root of a tree of at least five keys has vacated a slot
\* that was occupied before the insert
C15_Witness ==
    /\ RootRotated
    /\ Cardinality(inserted) >= 5
    /\ \E j \in OccupiedSlots(last.pre) : ~Occupied(arr, j)

\* the number of slots of the store that hold key k
CountKey(self, k) == Cardinality({j \in Slots(self) : self.tree[j] = k})

\* C16: right_rotate(p) and left_rotate(p) change key and height only inside
\* the implied subtree of p: every other slot below the old capacity keeps
\* its key and height, every other new slot is empty, and every key is
\* stored as many times after the rotation as before.
C16_RotationFrame ==
    last.op \in {"right_rotate", "left_rotate"} =>
        LET p == last.arg
            pre == last.pre
        IN /\ arr.capacity >= pre.capacity
           /\ \A j \in Slots(arr) :
                ~IsUnder(j, p) =>
                    IF j < pre.capacity
                    THEN arr.tree[j] = pre.tree[j] /\ arr.heights[j] = pre.heights[j]
                    ELSE arr.tree[j] = EMPTY /\ arr.heights[j] = 0
           /\ \A k \in StoredKeys(pre) \cup StoredKeys(arr) :
                CountKey(arr, k) = CountKey(pre, k)

\* left_rotate has been called below the root of a tree of at least five
\* keys, with occupied slots outside the rotated subtree
C16_Witness ==
    /\ last.op = "left_rotate"
    /\ last.arg > 0
    /\ Cardinality(OccupiedSlots(last.pre)) >= 5
    /\ \E j \in OccupiedSlots(last.pre) : ~IsUnder(j, last.arg)
    /\ arr # last.pre

\* slot j is reached from slot i by a chain of occupied slots (both included)
RECURSIVE Linked(_, _, _)
Linked(self, j, i) ==
    /\ Occupied(self, j)
    /\ \/ j = i
       \/ j > i /\ Linked(self, (j - 1) \div 2, i)

\* every slot of the implied subtree of i is empty, with height 0
SubtreeEmpty(self, i) ==
    \A j \in Slots(self) : IsUnder(j, i) => self.tree[j] = EMPTY /\ self.heights[j] = 0

\* C13 as stated: after _clear_subtree(i), on any store, no slot of the
\* implied subtree of i is occupied and their heights are 0.
C13_ClearsWholeSubtree ==
    last.op = "_clear_subtree" => SubtreeEmpty(arr, last.arg)

\* C13 as amended: _clear_subtree(i) empties (sentinel, height 0) exactly the
\* slots reached from i by a chain of occupied slots and changes no other
\* slot; it leaves the implied subtree of i empty whenever every occupied
\* slot of that subtree is reached from i by such a chain, as in every store
\* built by inserts.
C13_ClearsLinkedSlots ==
    last.op = "_clear_subtree" =>
        LET i == last.arg
            pre == last.pre
        IN /\ arr.capacity = pre.capacity
           /\ ~arr.oob
           /\ \A j \in Slots(pre) :
                IF Linked(pre, j, i)
                THEN arr.tree[j] = EMPTY /\ arr.heights[j] = 0
                ELSE arr.tree[j] = pre.tree[j] /\ arr.heights[j] = pre.heights[j]
           /\ (\A j \in OccupiedSlots(pre) : IsUnder(j, i) => Linked(pre, j, i))
                => SubtreeEmpty(arr, i)
           /\ Connected(pre) => SubtreeEmpty(arr, i)

\* a subtree of at least three occupied slots, below the root of a store
\* built by inserts, has been cleared
C13_Witness ==
    /\ last.op = "_clear_subtree"
    /\ last.arg > 0
    /\ Connected(last.pre)
    /\ Cardinality({j \in OccupiedSlots(last.pre) : IsUnder(j, last.arg)}) >= 3
    /\ SubtreeEmpty(arr, last.arg)

\* the records are in pre-order: no record comes before one of its
\* ancestors, and none under a right child comes before one under the left
\* child of the same slot
PreOrdered(records) ==
    \A p \in 1..Len(records) : \A q \in 1..Len(records) :
        p < q =>
            LET a == records[p][1]
                b == records[q][1]
            IN /\ a # b
               /\ ~IsUnder(a, b)
               /\ \A c \in 0..a : ~(IsUnder(a, 2 * c + 2) /\ IsUnder(b, 2 * c + 1))

\* C14: records = extract(i); clear(i); write(j, records), on a store built
\* by inserts with i occupied and the implied subtree of j empty after the
\* clear: extract(j) then returns exactly records, which hold the relative
\* indices, keys and heights of the old subtree of i in pre-order from
\* relative index 0; with j = i the key and height arrays are as before.
C14_RelocationRoundTrip ==
    last.op = "relocate" =>
        LET i == last.arg[1]
            j == last.arg[2]
            records == last.result
            pre == last.pre
        IN /\ ~arr.oob
           /\ _extract_subtree_data(arr, j, 0) = records
           /\ records[1][1] = 0
           /\ PreOrdered(records)
           /\ {<<RelPath(records[n][1], 0), records[n][2], records[n][3]>> :
                    n \in 1..Len(records)}
              = {<<RelPath(n, i), pre.tree[n], pre.heights[n]>> :
                    n \in {m \in OccupiedSlots(pre) : IsUnder(m, i)}}
           /\ {<<RelPath(n, j), arr.tree[n], arr.heights[n]>> :
                    n \in {m \in OccupiedSlots(arr) : IsUnder(m, j)}}
              = {<<RelPath(n, i), pre.tree[n], pre.heights[n]>> :
                    n \in {m \in OccupiedSlots(pre) : IsUnder(m, i)}}
           /\ i = j => /\ arr.tree = pre.tree
                       /\ arr.heights = pre.heights
                       /\ arr.capacity = pre.capacity

\* a subtree of at least three slots has been moved to a destination
\* outside its old place, and the store has grown to hold it
C14_Witness ==
    /\ last.op = "relocate"
    /\ last.arg[1] # last.arg[2]
    /\ ~IsUnder(last.arg[2], last.arg[1])
    /\ Len(last.result) >= 3
    /\ arr.capacity > last.pre.capacity

====
